---- MODULE Spec2Model ----
(***************************************************************************)
(* Graph store (class Graph), random graph generator (createRandomGraph)   *)
(* and shortest-path engine (dijkstra) of Algo-Visuals.                    *)
(*                                                                         *)
(* Strings are sequences of UTF-16 code units, so that Array.sort and      *)
(* Array.join on node ids are computed as JavaScript computes them.        *)
(* An Edge object is a heap cell.  A reference is <<from, to, k>>: the     *)
(* endpoints the object was created with and a serial number that tells   *)
(* apart objects created with the same endpoints; null is <<>>.  The heap  *)
(* `edges` maps every reference that is still reachable from a list head  *)
(* to the fields of the object.                                            *)
(***************************************************************************)
EXTENDS Integers, Sequences, FiniteSets, TLC

VARIABLES
  nodes,      \* Graph.nodes: the records in property (insertion) order
  edges,      \* heap of Edge objects: reference -> fields
  ret,        \* history: the case the last call met
  liveEdges,  \* history: references returned by add_edge and not yet removed
  netCount,   \* history: successful add_edge calls minus removing remove_edge calls
  rg,         \* the locals of a createRandomGraph call
  dj,         \* the locals of a dijkstra call and the objects of its result
  rp,         \* the arguments and the result of a reconstructPath call
  sp,         \* the locals of a computeShortestPath call
  pg          \* the state, the ref and the timers of the Dijkstra page

vars == <<nodes, edges, ret, liveEdges, netCount, rg, dj, rp, sp, pg>>

Null == <<>>

(* ---------------------------- strings ---------------------------------- *)

Dash == <<45>>

\* "a-b", "b-a", "a-b-a": three ordinary ids; "valueOf": a key that every
\* object literal inherits from Object.prototype.
IdAB == <<97, 45, 98>>
IdBA == <<98, 45, 97>>
IdABA == <<97, 45, 98, 45, 97>>
IdValueOf == <<118, 97, 108, 117, 101, 79, 102>>

OrdinaryIds == {IdAB, IdBA, IdABA}

ObjectPrototypeKeys == {IdValueOf}

ArgIds == OrdinaryIds \cup ObjectPrototypeKeys

Values == {10, 20}

Weights == {1}

MaxEdges == 3

\* s < t in the code-unit order used by Array.prototype.sort()
RECURSIVE StrLess(_, _)
StrLess(s, t) ==
  IF t = <<>> THEN FALSE
  ELSE IF s = <<>> THEN TRUE
  ELSE IF Head(s) # Head(t) THEN Head(s) < Head(t)
  ELSE StrLess(Tail(s), Tail(t))

_getEdgeId(nodeId1, nodeId2) ==
  IF StrLess(nodeId2, nodeId1)
    THEN nodeId2 \o Dash \o nodeId1
    ELSE nodeId1 \o Dash \o nodeId2

(* ------------------------- property lookup ----------------------------- *)

HasOwn(ns, id) == \E i \in 1..Len(ns) : ns[i].id = id

IndexOf(ns, id) == CHOOSE i \in 1..Len(ns) : ns[i].id = id

\* this.nodes[id] is truthy: an own property (a Node) or an inherited member
Truthy(ns, id) == HasOwn(ns, id) \/ id \in ObjectPrototypeKeys

NodeIdsOf(ns) == {ns[i].id : i \in 1..Len(ns)}

(* ----------------------------- lists ----------------------------------- *)

\* the references met by following `field` from `head`; the walk gives up
\* after `fuel` cells, so a cyclic list shows as one longer than the heap
RECURSIVE Walk(_, _, _, _)
Walk(es, head, field, fuel) ==
  IF head = Null \/ head \notin DOMAIN es \/ fuel = 0 THEN <<>>
  ELSE <<head>> \o Walk(es, es[head][field], field, fuel - 1)

Fuel(es) == Cardinality(DOMAIN es) + 1

Outgoing(ns, es, id) == Walk(es, ns[IndexOf(ns, id)].outgoing_edges, "next_from", Fuel(es))

Incoming(ns, es, id) == Walk(es, ns[IndexOf(ns, id)].incoming_edges, "next_to", Fuel(es))

Range(s) == {s[i] : i \in 1..Len(s)}

Reachable(ns, es) ==
  UNION {Range(Outgoing(ns, es, id)) \cup Range(Incoming(ns, es, id)) : id \in NodeIdsOf(ns)}

\* objects no list reaches any more are garbage
Collect(ns, es) == [e \in Reachable(ns, es) |-> es[e]]

FreshRef(es, from_id, to_id) ==
  LET k == CHOOSE n \in 1..(Cardinality(DOMAIN es) + 1) :
             /\ <<from_id, to_id, n>> \notin DOMAIN es
             /\ \A m \in 1..(n - 1) : <<from_id, to_id, m>> \in DOMAIN es
  IN <<from_id, to_id, k>>

(* ----------------------------- add_node -------------------------------- *)

\* add_node as it would be without the presence test: the value is overwritten
add_node_overwrite(ns, node_id, value) ==
  IF HasOwn(ns, node_id)
    THEN [ns EXCEPT ![IndexOf(ns, node_id)].value = value]
    ELSE IF node_id \in ObjectPrototypeKeys THEN ns
    ELSE Append(ns, [id |-> node_id, value |-> value,
                     outgoing_edges |-> Null, incoming_edges |-> Null])

add_node(ns, node_id, value) ==
  IF ~Truthy(ns, node_id)
    THEN Append(ns, [id |-> node_id, value |-> value,
                     outgoing_edges |-> Null, incoming_edges |-> Null])
    ELSE ns

(* ----------------------------- hasEdge --------------------------------- *)

\* "true", "false", or "TypeError" when the loop dereferences the undefined
\* outgoing_edges of an inherited member
hasEdge(ns, es, nodeId1, nodeId2) ==
  IF ~Truthy(ns, nodeId1) \/ ~Truthy(ns, nodeId2) THEN "false"
  ELSE IF ~HasOwn(ns, nodeId1) THEN "TypeError"
  ELSE IF \E e \in Range(Outgoing(ns, es, nodeId1)) : es[e].to_node = nodeId2 THEN "true"
  ELSE IF ~HasOwn(ns, nodeId2) THEN "TypeError"
  ELSE IF \E e \in Range(Outgoing(ns, es, nodeId2)) : es[e].to_node = nodeId1 THEN "true"
  ELSE "false"

(* --------------------------- _add_to_list ------------------------------ *)

Last(s) == s[Len(s)]

\* _add_to_list as it would be if the incoming branch stopped at the head
\* instead of walking to the tail: the second cell of the list is overwritten
_add_to_list_no_walk(ns, es, node_id, edge, list_type) ==
  LET i == IndexOf(ns, node_id) IN
  IF list_type = "outgoing" THEN
    IF ns[i].outgoing_edges = Null
      THEN [nodes |-> [ns EXCEPT ![i].outgoing_edges = edge], edges |-> es]
      ELSE LET curr == Last(Outgoing(ns, es, node_id)) IN
           [nodes |-> ns,
            edges |-> [es EXCEPT ![curr].next_from = edge, ![edge].prev_from = curr]]
  ELSE
    IF ns[i].incoming_edges = Null
      THEN [nodes |-> [ns EXCEPT ![i].incoming_edges = edge], edges |-> es]
      ELSE LET curr == ns[i].incoming_edges IN
           [nodes |-> ns,
            edges |-> [es EXCEPT ![curr].next_to = edge, ![edge].prev_to = curr]]

\* _add_to_list as it would be if it linked the new edge in front of the head
_add_to_list_at_head(ns, es, node_id, edge, list_type) ==
  LET i == IndexOf(ns, node_id) IN
  IF list_type = "outgoing" THEN
    IF ns[i].outgoing_edges = Null
      THEN [nodes |-> [ns EXCEPT ![i].outgoing_edges = edge], edges |-> es]
      ELSE LET head == ns[i].outgoing_edges IN
           [nodes |-> [ns EXCEPT ![i].outgoing_edges = edge],
            edges |-> [es EXCEPT ![edge].next_from = head, ![head].prev_from = edge]]
  ELSE
    IF ns[i].incoming_edges = Null
      THEN [nodes |-> [ns EXCEPT ![i].incoming_edges = edge], edges |-> es]
      ELSE LET head == ns[i].incoming_edges IN
           [nodes |-> [ns EXCEPT ![i].incoming_edges = edge],
            edges |-> [es EXCEPT ![edge].next_to = head, ![head].prev_to = edge]]

_add_to_list(ns, es, node_id, edge, list_type) ==
  LET i == IndexOf(ns, node_id) IN
  IF list_type = "outgoing" THEN
    IF ns[i].outgoing_edges = Null
      THEN [nodes |-> [ns EXCEPT ![i].outgoing_edges = edge], edges |-> es]
      ELSE LET curr == Last(Outgoing(ns, es, node_id)) IN
           [nodes |-> ns,
            edges |-> [es EXCEPT ![curr].next_from = edge, ![edge].prev_from = curr]]
  ELSE
    IF ns[i].incoming_edges = Null
      THEN [nodes |-> [ns EXCEPT ![i].incoming_edges = edge], edges |-> es]
      ELSE LET curr == Last(Incoming(ns, es, node_id)) IN
           [nodes |-> ns,
            edges |-> [es EXCEPT ![curr].next_to = edge, ![edge].prev_to = curr]]

(* ----------------------------- add_edge -------------------------------- *)

\* result: nodes, edges and `out`, which is a reference, Null or "TypeError"
add_edge(ns, es, from_id, to_id, weight) ==
  IF Truthy(ns, from_id) /\ Truthy(ns, to_id) THEN
    LET h == hasEdge(ns, es, from_id, to_id) IN
    IF h = "TypeError" THEN [nodes |-> ns, edges |-> es, out |-> "TypeError", ref |-> Null]
    ELSE IF h = "true" THEN [nodes |-> ns, edges |-> es, out |-> "null", ref |-> Null]
    ELSE
      LET edge == FreshRef(es, from_id, to_id)
          obj  == [from_node |-> from_id, to_node |-> to_id, data |-> weight,
                   next_from |-> Null, prev_from |-> Null,
                   next_to |-> Null, prev_to |-> Null,
                   id |-> _getEdgeId(from_id, to_id)]
          es0  == [r \in DOMAIN es \cup {edge} |-> IF r = edge THEN obj ELSE es[r]]
          g1   == _add_to_list(ns, es0, from_id, edge, "outgoing")
          g2   == _add_to_list(g1.nodes, g1.edges, to_id, edge, "incoming")
      IN [nodes |-> g2.nodes, edges |-> g2.edges, out |-> "edge", ref |-> edge]
  ELSE [nodes |-> ns, edges |-> es, out |-> "null", ref |-> Null]

(* ------------------------- _remove_from_list --------------------------- *)

\* the first cell of the walk whose far end is other_id, or Null
FirstMatch(es, walk, far, other_id) ==
  IF \E k \in 1..Len(walk) : es[walk[k]][far] = other_id
    THEN walk[CHOOSE k \in 1..Len(walk) :
                /\ es[walk[k]][far] = other_id
                /\ \A j \in 1..(k - 1) : es[walk[j]][far] # other_id]
    ELSE Null

SetField(es, r, field, v) ==
  IF r \in DOMAIN es THEN [es EXCEPT ![r][field] = v] ELSE es

\* _remove_from_list as it would be without the two assignments to the prev
\* pointer of the successor
_remove_from_list_stale_prev(ns, es, node_id, other_id, list_type) ==
  LET i == IndexOf(ns, node_id) IN
  IF list_type = "outgoing" THEN
    LET curr == FirstMatch(es, Outgoing(ns, es, node_id), "to_node", other_id) IN
    IF curr = Null THEN [nodes |-> ns, edges |-> es, found |-> FALSE]
    ELSE
      LET ns1 == IF es[curr].prev_from # Null THEN ns
                 ELSE [ns EXCEPT ![i].outgoing_edges = es[curr].next_from]
          es1 == IF es[curr].prev_from # Null
                   THEN SetField(es, es[curr].prev_from, "next_from", es[curr].next_from)
                   ELSE es
      IN [nodes |-> ns1, edges |-> es1, found |-> TRUE]
  ELSE
    LET curr == FirstMatch(es, Incoming(ns, es, node_id), "from_node", other_id) IN
    IF curr = Null THEN [nodes |-> ns, edges |-> es, found |-> FALSE]
    ELSE
      LET ns1 == IF es[curr].prev_to # Null THEN ns
                 ELSE [ns EXCEPT ![i].incoming_edges = es[curr].next_to]
          es1 == IF es[curr].prev_to # Null
                   THEN SetField(es, es[curr].prev_to, "next_to", es[curr].next_to)
                   ELSE es
      IN [nodes |-> ns1, edges |-> es1, found |-> TRUE]

_remove_from_list(ns, es, node_id, other_id, list_type) ==
  LET i == IndexOf(ns, node_id) IN
  IF list_type = "outgoing" THEN
    LET curr == FirstMatch(es, Outgoing(ns, es, node_id), "to_node", other_id) IN
    IF curr = Null THEN [nodes |-> ns, edges |-> es, found |-> FALSE]
    ELSE
      LET ns1 == IF es[curr].prev_from # Null THEN ns
                 ELSE [ns EXCEPT ![i].outgoing_edges = es[curr].next_from]
          es1 == IF es[curr].prev_from # Null
                   THEN SetField(es, es[curr].prev_from, "next_from", es[curr].next_from)
                   ELSE es
          es2 == IF es[curr].next_from # Null
                   THEN SetField(es1, es[curr].next_from, "prev_from", es[curr].prev_from)
                   ELSE es1
      IN [nodes |-> ns1, edges |-> es2, found |-> TRUE]
  ELSE
    LET curr == FirstMatch(es, Incoming(ns, es, node_id), "from_node", other_id) IN
    IF curr = Null THEN [nodes |-> ns, edges |-> es, found |-> FALSE]
    ELSE
      LET ns1 == IF es[curr].prev_to # Null THEN ns
                 ELSE [ns EXCEPT ![i].incoming_edges = es[curr].next_to]
          es1 == IF es[curr].prev_to # Null
                   THEN SetField(es, es[curr].prev_to, "next_to", es[curr].next_to)
                   ELSE es
          es2 == IF es[curr].next_to # Null
                   THEN SetField(es1, es[curr].next_to, "prev_to", es[curr].prev_to)
                   ELSE es1
      IN [nodes |-> ns1, edges |-> es2, found |-> TRUE]

(* ---------------------------- remove_edge ------------------------------ *)

\* remove_edge as it would be without the incoming pass
remove_edge_outgoing_only(ns, es, from_id, to_id) ==
  IF Truthy(ns, from_id) /\ Truthy(ns, to_id) THEN
    IF ~HasOwn(ns, from_id) THEN [nodes |-> ns, edges |-> es, out |-> "TypeError", found |-> FALSE]
    ELSE LET g1 == _remove_from_list(ns, es, from_id, to_id, "outgoing") IN
         [nodes |-> g1.nodes, edges |-> g1.edges, out |-> "void", found |-> g1.found]
  ELSE [nodes |-> ns, edges |-> es, out |-> "void", found |-> FALSE]

\* remove_edge as it would be if it also unlinked an edge stored the other
\* way round
remove_edge_either_direction(ns, es, from_id, to_id) ==
  IF Truthy(ns, from_id) /\ Truthy(ns, to_id) THEN
    IF ~HasOwn(ns, from_id) THEN [nodes |-> ns, edges |-> es, out |-> "TypeError", found |-> FALSE]
    ELSE
      LET g1 == _remove_from_list(ns, es, from_id, to_id, "outgoing") IN
      IF ~HasOwn(ns, to_id)
        THEN [nodes |-> g1.nodes, edges |-> g1.edges, out |-> "TypeError", found |-> g1.found]
        ELSE LET g2 == _remove_from_list(g1.nodes, g1.edges, to_id, from_id, "incoming")
                 g3 == _remove_from_list(g2.nodes, g2.edges, to_id, from_id, "outgoing")
                 g4 == _remove_from_list(g3.nodes, g3.edges, from_id, to_id, "incoming")
             IN [nodes |-> g4.nodes, edges |-> g4.edges, out |-> "void",
                 found |-> g1.found \/ g3.found]
  ELSE [nodes |-> ns, edges |-> es, out |-> "void", found |-> FALSE]

\* `out` is "void", or "TypeError" when a list head of an inherited member
\* (undefined, not null) is dereferenced; `found` tells whether the outgoing
\* pass unlinked an edge
remove_edge(ns, es, from_id, to_id) ==
  IF Truthy(ns, from_id) /\ Truthy(ns, to_id) THEN
    IF ~HasOwn(ns, from_id) THEN [nodes |-> ns, edges |-> es, out |-> "TypeError", found |-> FALSE]
    ELSE
      LET g1 == _remove_from_list(ns, es, from_id, to_id, "outgoing") IN
      IF ~HasOwn(ns, to_id)
        THEN [nodes |-> g1.nodes, edges |-> g1.edges, out |-> "TypeError", found |-> g1.found]
        ELSE LET g2 == _remove_from_list(g1.nodes, g1.edges, to_id, from_id, "incoming") IN
             [nodes |-> g2.nodes, edges |-> g2.edges, out |-> "void", found |-> g1.found]
  ELSE [nodes |-> ns, edges |-> es, out |-> "void", found |-> FALSE]

(* --------------------------- get_all_edges ----------------------------- *)

RECURSIVE DedupById(_, _, _, _)
DedupById(es, walk, acc, visited) ==
  IF walk = <<>> THEN [acc |-> acc, visited |-> visited]
  ELSE LET e == Head(walk) IN
       IF es[e].id \in visited
         THEN DedupById(es, Tail(walk), acc, visited)
         ELSE DedupById(es, Tail(walk), Append(acc, e), visited \cup {es[e].id})

RECURSIVE AllEdgesFrom(_, _, _, _, _)
AllEdgesFrom(ns, es, i, acc, visited) ==
  IF i > Len(ns) THEN acc
  ELSE LET r == DedupById(es, Outgoing(ns, es, ns[i].id), acc, visited) IN
       AllEdgesFrom(ns, es, i + 1, r.acc, r.visited)

get_all_edges(ns, es) == AllEdgesFrom(ns, es, 1, <<>>, {})

(* ------------------------- the graph store ----------------------------- *)

\* `ret` keeps the one fact about the last call that the state does not show:
\* "existing" after add_node on an id that was already a node; "only",
\* "head", "middle" or "tail" after remove_edge unlinked the edge that stood
\* there in the outgoing list; "none" after every other call
NoCall == "none"

\* no call of createRandomGraph or dijkstra is under way
Idle == [pc |-> "idle"]

Init ==
  /\ nodes = <<>>
  /\ edges = <<>>
  /\ ret = NoCall
  /\ liveEdges = {}
  /\ netCount = 0
  /\ rg = Idle
  /\ dj = Idle
  /\ rp = Idle
  /\ sp = Idle
  /\ pg = Idle

\* where in the walk the cell stands
Position(walk, e) ==
  IF e \notin Range(walk) THEN "none"
  ELSE IF Len(walk) = 1 THEN "only"
  ELSE IF walk[1] = e THEN "head"
  ELSE IF walk[Len(walk)] = e THEN "tail"
  ELSE "middle"

\* the live edges stored as from_id -> to_id
Stored(from_id, to_id) ==
  {e \in liveEdges \cap DOMAIN edges :
     edges[e].from_node = from_id /\ edges[e].to_node = to_id}

\* a node that is created gets the value 10; a call for an id that add_node
\* finds already there offers either value
AddNode(node_id, value) ==
  /\ ~Truthy(nodes, node_id) => value = 10
  /\ nodes' = add_node(nodes, node_id, value)
  /\ ret' = IF HasOwn(nodes, node_id) THEN "existing" ELSE NoCall
  /\ UNCHANGED <<edges, liveEdges, netCount, rg, dj, rp, sp, pg>>

AddEdge(from_id, to_id, weight) ==
  LET r == add_edge(nodes, edges, from_id, to_id, weight) IN
  /\ r.out = "edge" => Cardinality(liveEdges) < MaxEdges
  /\ nodes' = r.nodes
  /\ edges' = r.edges
  /\ ret' = NoCall
  /\ liveEdges' = IF r.out = "edge" THEN liveEdges \cup {r.ref} ELSE liveEdges
  /\ netCount' = IF r.out = "edge" THEN netCount + 1 ELSE netCount
  /\ UNCHANGED <<rg, dj, rp, sp, pg>>

RemoveEdge(from_id, to_id) ==
  LET r == remove_edge(nodes, edges, from_id, to_id) IN
  /\ nodes' = r.nodes
  /\ edges' = Collect(r.nodes, r.edges)
  /\ ret' = IF r.found /\ Stored(from_id, to_id) # {}
              THEN Position(Outgoing(nodes, edges, from_id),
                            CHOOSE e \in Stored(from_id, to_id) : TRUE)
              ELSE NoCall
  /\ liveEdges' = liveEdges \ Stored(from_id, to_id)
  /\ netCount' = IF r.found THEN netCount - 1 ELSE netCount
  /\ UNCHANGED <<rg, dj, rp, sp, pg>>

Next ==
  \/ \E node_id \in ArgIds, value \in Values : AddNode(node_id, value)
  \/ \E from_id \in ArgIds, to_id \in ArgIds, weight \in Weights : AddEdge(from_id, to_id, weight)
  \/ \E from_id \in ArgIds, to_id \in ArgIds : RemoveEdge(from_id, to_id)

Spec == Init /\ [][Next]_vars

(* ------------------------- createRandomGraph --------------------------- *)

MaxNodeCount == 3

\* edgeDensity is one of 0, 1/DensitySteps, ..., 1
DensitySteps == 4

\* minValue..maxValue of the call: minValue = maxValue = 10
NodeValueRange == 10..10

\* Math.floor(Math.random() * 10) + 1 lies in 1..10; the weight is payload that
\* no branch of createRandomGraph reads, and the model draws the outcome 1
RandomWeights == {1}

\* nodeIds[k] for an index past the end of the array
Undefined == <<0>>

\* `node-${i}` for i < 10
NodeName(i) == <<110, 111, 100, 101, 45, 48 + i>>

Keys(ns) == [i \in 1..Len(ns) |-> ns[i].id]

\* Math.floor(possibleEdgePairs * edgeDensity) for edgeDensity = d / DensitySteps
MaxEdgesFor(nodeCount, d) == (((nodeCount * (nodeCount - 1)) \div 2) * d) \div DensitySteps

\* the pairs [nodeIds[i], nodeIds[j]], i < j, in the order of the two loops
RECURSIVE PairsFrom(_, _, _)
PairsFrom(nodeIds, i, j) ==
  IF i > Len(nodeIds) THEN <<>>
  ELSE IF j > Len(nodeIds) THEN PairsFrom(nodeIds, i + 1, i + 2)
  ELSE <<<<nodeIds[i], nodeIds[j]>>>> \o PairsFrom(nodeIds, i, j + 1)

AllPairs(nodeIds) == PairsFrom(nodeIds, 1, 2)

Swap(array, i, j) == [array EXCEPT ![i] = array[j], ![j] = array[i]]

\* every array shuffleArray can leave: for i = length-1 down to 1 the element
\* at i is swapped with the one at a random j in 0..i (indices from 1 here)
RECURSIVE ShuffleFrom(_, _)
ShuffleFrom(array, i) ==
  IF i <= 1 THEN {array}
  ELSE UNION {ShuffleFrom(Swap(array, i, j), i - 1) : j \in 1..i}

shuffleArray(array) == ShuffleFrom(array, Len(array))

\* the (fromId, toId) draws of one round of the connectivity loop
ConnectDraws_any_source(connected, unconnected) ==
  (connected \cup unconnected) \X unconnected

ConnectDraws(connected, unconnected) == connected \X unconnected

InitRandom ==
  /\ nodes = <<>>
  /\ edges = <<>>
  /\ ret = NoCall
  /\ liveEdges = {}
  /\ netCount = 0
  /\ dj = Idle
  /\ rp = Idle
  /\ sp = Idle
  /\ pg = Idle
  /\ \E nodeCount \in 0..MaxNodeCount, d \in 0..DensitySteps :
       rg = [pc |-> "nodes", nodeCount |-> nodeCount, density |-> d, i |-> 0,
             maxEdges |-> MaxEdgesFor(nodeCount, d),
             connected |-> {}, unconnected |-> {},
             edgeCount |-> 0, possiblePairs |-> <<>>, k |-> 1]

\* one round of the node loop: graph.nodes[node.id] = node
CreateNode ==
  /\ rg.pc = "nodes"
  /\ rg.i < rg.nodeCount
  /\ \E value \in NodeValueRange :
       nodes' = Append(nodes, [id |-> NodeName(rg.i), value |-> value,
                               outgoing_edges |-> Null, incoming_edges |-> Null])
  /\ rg' = [rg EXCEPT !.i = @ + 1]
  /\ UNCHANGED <<edges, ret, liveEdges, netCount, dj, rp, sp, pg>>

\* nodeIds, the two sets and the random start node
PickStart ==
  /\ rg.pc = "nodes"
  /\ rg.i >= rg.nodeCount
  /\ \E startNodeId \in (IF nodes = <<>> THEN {Undefined} ELSE NodeIdsOf(nodes)) :
       rg' = [rg EXCEPT !.pc = "connect",
                        !.connected = {startNodeId},
                        !.unconnected = NodeIdsOf(nodes) \ {startNodeId}]
  /\ UNCHANGED <<nodes, edges, ret, liveEdges, netCount, dj, rp, sp, pg>>

\* one round of `while (unconnected.size > 0)`
Connect ==
  /\ rg.pc = "connect"
  /\ rg.unconnected # {}
  /\ \E draw \in ConnectDraws(rg.connected, rg.unconnected), weight \in RandomWeights :
       LET r == add_edge(nodes, edges, draw[1], draw[2], weight) IN
       /\ nodes' = r.nodes
       /\ edges' = r.edges
       /\ liveEdges' = IF r.out = "edge" THEN liveEdges \cup {r.ref} ELSE liveEdges
       /\ netCount' = IF r.out = "edge" THEN netCount + 1 ELSE netCount
       /\ rg' = [rg EXCEPT !.connected = @ \cup {draw[2]},
                           !.unconnected = @ \ {draw[2]}]
  /\ UNCHANGED <<ret, dj, rp, sp, pg>>

\* a shuffle step whose edgeCount starts from 0
Shuffle_counts_from_zero ==
  /\ rg.pc = "connect"
  /\ rg.unconnected = {}
  /\ \E shuffled \in shuffleArray(AllPairs(Keys(nodes))) :
       rg' = [rg EXCEPT !.pc = "augment",
                        !.edgeCount = 0,
                        !.possiblePairs = shuffled,
                        !.k = 1]
  /\ UNCHANGED <<nodes, edges, ret, liveEdges, netCount, dj, rp, sp, pg>>

\* edgeCount, possiblePairs and the shuffle
Shuffle ==
  /\ rg.pc = "connect"
  /\ rg.unconnected = {}
  /\ \E shuffled \in shuffleArray(AllPairs(Keys(nodes))) :
       rg' = [rg EXCEPT !.pc = "augment",
                        !.edgeCount = rg.nodeCount - 1,
                        !.possiblePairs = shuffled,
                        !.k = 1]
  /\ UNCHANGED <<nodes, edges, ret, liveEdges, netCount, dj, rp, sp, pg>>

\* one round of `for (const [fromId, toId] of possiblePairs)` that does not break
Augment ==
  /\ rg.pc = "augment"
  /\ rg.k <= Len(rg.possiblePairs)
  /\ ~(rg.edgeCount >= rg.maxEdges)
  /\ LET fromId == rg.possiblePairs[rg.k][1]
         toId   == rg.possiblePairs[rg.k][2]
     IN IF hasEdge(nodes, edges, fromId, toId) = "true"
          THEN /\ rg' = [rg EXCEPT !.k = @ + 1]
               /\ UNCHANGED <<nodes, edges, liveEdges, netCount, pg>>
          ELSE \E weight \in RandomWeights :
                 LET r == add_edge(nodes, edges, fromId, toId, weight) IN
                 /\ nodes' = r.nodes
                 /\ edges' = r.edges
                 /\ liveEdges' = IF r.out = "edge" THEN liveEdges \cup {r.ref} ELSE liveEdges
                 /\ netCount' = IF r.out = "edge" THEN netCount + 1 ELSE netCount
                 /\ rg' = [rg EXCEPT !.k = @ + 1, !.edgeCount = @ + 1]
  /\ UNCHANGED <<ret, dj, rp, sp, pg>>

\* the loop breaks or runs out of pairs: return graph; the shuffled array and
\* the loop position go out of scope
ReturnGraph ==
  /\ rg.pc = "augment"
  /\ rg.k > Len(rg.possiblePairs) \/ rg.edgeCount >= rg.maxEdges
  /\ rg' = [rg EXCEPT !.pc = "done", !.possiblePairs = <<>>, !.k = 1]
  /\ UNCHANGED <<nodes, edges, ret, liveEdges, netCount, dj, rp, sp, pg>>

NextRandom ==
  \/ CreateNode
  \/ PickStart
  \/ Connect
  \/ Shuffle
  \/ Augment
  \/ ReturnGraph

SpecRandom == InitRandom /\ [][NextRandom]_vars

\* createRandomGraph is one sequential call: a step that can be taken is taken
FairSpecRandom == SpecRandom /\ WF_vars(NextRandom)

(* ------------------------------ dijkstra ------------------------------- *)

\* the number Infinity: larger than every sum of stored weights
Infinity == 1000

\* the graphs dijkstra runs on: nodes "A", "B", "C" in this insertion order
DijkstraIds == <<<<65>>, <<66>>, <<67>>>>

\* "Z" is no node of these graphs
IdZ == <<90>>

StartIds == Range(DijkstraIds) \cup {IdZ} \cup ObjectPrototypeKeys

DijkstraWeights == {-1, 0, 1}

RECURSIVE AddNodes(_, _, _)
AddNodes(ns, ids, k) ==
  IF k > Len(ids) THEN ns ELSE AddNodes(add_node(ns, ids[k], 0), ids, k + 1)

\* a delete that drops the oldest member whatever it is asked to drop
SetDelete_first(set, x) == IF set = <<>> THEN set ELSE Tail(set)

\* Set.delete keeps the insertion order of the other members
SetDelete(set, x) == SelectSeq(set, LAMBDA y : y # x)

\* an add that leaves the set as it was
SetAdd_skipped(set, x) == set

\* Set.add appends a new member
SetAdd(set, x) == IF x \in Range(set) THEN set ELSE Append(set, x)

\* the scan with `<=` for `<`: a later member replaces an equal earlier one
RECURSIVE ForEachMin_last_tie(_, _, _, _, _)
ForEachMin_last_tie(nodeSet, k, distanceMap, minDistance, minNodeId) ==
  IF k > Len(nodeSet) THEN minNodeId
  ELSE LET nodeId == nodeSet[k] IN
       IF nodeId \in DOMAIN distanceMap /\ distanceMap[nodeId] <= minDistance
            THEN ForEachMin_last_tie(nodeSet, k + 1, distanceMap, distanceMap[nodeId], nodeId)
            ELSE ForEachMin_last_tie(nodeSet, k + 1, distanceMap, minDistance, minNodeId)

RECURSIVE ForEachMin(_, _, _, _, _)
ForEachMin(nodeSet, k, distanceMap, minDistance, minNodeId) ==
  IF k > Len(nodeSet) THEN minNodeId
  ELSE LET nodeId == nodeSet[k] IN
       \* distanceMap.get(nodeId) is undefined for a key the map lacks
       IF nodeId \in DOMAIN distanceMap /\ distanceMap[nodeId] < minDistance
            THEN ForEachMin(nodeSet, k + 1, distanceMap, distanceMap[nodeId], nodeId)
            ELSE ForEachMin(nodeSet, k + 1, distanceMap, minDistance, minNodeId)

findNodeWithSmallestDistance(nodeSet, distanceMap) ==
  IF Len(nodeSet) = 0 THEN Null
  ELSE ForEachMin(nodeSet, 1, distanceMap, Infinity, Null)

\* Map and Set objects are named by references <<n, field>>: n = 0 for the four
\* objects dijkstra creates and mutates, n = k for the copies made for the k-th
\* recorded step, whose contents are kept in the heap
Live(field) == <<0, field>>

StepFields == {"distances", "previous", "visited", "unvisited"}

\* a step that keeps the arguments themselves instead of copies
createDijkstraStep_shared(heap, currentId, nextShortest, distances, previous, visited, unvisited) ==
  [step |-> [currentNodeId |-> currentId,
             distances |-> Live("distances"), previous |-> Live("previous"),
             visited |-> Live("visited"), unvisited |-> Live("unvisited"),
             currentShortest |-> nextShortest],
   heap |-> heap]

\* new Map(distances), new Map(previous), new Set(visited), new Set(unvisited):
\* four new objects with the contents the arguments have now
createDijkstraStep(heap, currentId, nextShortest, distances, previous, visited, unvisited) ==
  LET n == (Cardinality(DOMAIN heap) \div 4) + 1
      contents == [distances |-> distances, previous |-> previous,
                   visited |-> visited, unvisited |-> unvisited]
  IN [step |-> [currentNodeId |-> currentId,
                distances |-> <<n, "distances">>, previous |-> <<n, "previous">>,
                visited |-> <<n, "visited">>, unvisited |-> <<n, "unvisited">>,
                currentShortest |-> nextShortest],
      heap |-> [ref \in DOMAIN heap \cup {<<n, f>> : f \in StepFields} |->
                  IF ref \in DOMAIN heap THEN heap[ref] ELSE contents[ref[2]]]]

\* the contents of the Map or Set a reference names, given the locals d
Contents(d, ref) == IF ref[1] = 0 THEN d[ref[2]] ELSE d.heap[ref]

\* a relaxation that records the shorter distance but not the predecessor
RelaxEdge_keeps_previous(st, es, edge, neighborId, currentNodeId, currentDistance) ==
  IF neighborId \in Range(st.visited) /\ st.distances[neighborId] <= currentDistance
    THEN st
    ELSE IF currentDistance + es[edge].data < st.distances[neighborId]
           THEN [st EXCEPT !.distances[neighborId] = currentDistance + es[edge].data]
           ELSE st

\* a relaxation that stores the new distance without comparing it
RelaxEdge_always_sets(st, es, edge, neighborId, currentNodeId, currentDistance) ==
  IF neighborId \in Range(st.visited) /\ st.distances[neighborId] <= currentDistance
    THEN st
    ELSE [st EXCEPT !.distances[neighborId] = currentDistance + es[edge].data,
                    !.previous[neighborId] = currentNodeId]

\* the body of either edge loop for one edge towards neighborId
RelaxEdge(st, es, edge, neighborId, currentNodeId, currentDistance) ==
  IF neighborId \in Range(st.visited) /\ st.distances[neighborId] <= currentDistance
    THEN st
    ELSE LET weight == es[edge].data
             newDistance == currentDistance + weight
             currentNeighborDistance ==
               IF neighborId \in DOMAIN st.distances THEN st.distances[neighborId]
               ELSE Infinity
         IN IF newDistance < currentNeighborDistance
              THEN [st EXCEPT !.distances[neighborId] = newDistance,
                              !.previous[neighborId] = currentNodeId]
              ELSE st

RECURSIVE RelaxList(_, _, _, _, _, _, _)
RelaxList(st, es, walk, k, endpoint, currentNodeId, currentDistance) ==
  IF k > Len(walk) THEN st
  ELSE RelaxList(RelaxEdge(st, es, walk[k], es[walk[k]][endpoint],
                           currentNodeId, currentDistance),
                 es, walk, k + 1, endpoint, currentNodeId, currentDistance)

\* a run that does not look at the outgoing edges
RelaxOutgoing_skipped(st, ns, es, currentNodeId, currentDistance) == st

RelaxOutgoing(st, ns, es, currentNodeId, currentDistance) ==
  RelaxList(st, es, Outgoing(ns, es, currentNodeId), 1, "to_node",
            currentNodeId, currentDistance)

RelaxIncoming_skipped(st, ns, es, currentNodeId, currentDistance) == st

RelaxIncoming(st, ns, es, currentNodeId, currentDistance) ==
  RelaxList(st, es, Incoming(ns, es, currentNodeId), 1, "from_node",
            currentNodeId, currentDistance)

\* the backward walk that appends each node instead of putting it in front
RECURSIVE WalkBack_push(_, _, _, _)
WalkBack_push(path, current, startNodeId, previous) ==
  IF current = Null THEN [out |-> "ended", path |-> path]
  ELSE IF current \in Range(path) THEN [out |-> "hangs", path |-> path]
  ELSE IF current = startNodeId THEN [out |-> "ended", path |-> Append(path, current)]
  ELSE WalkBack_push(Append(path, current),
                     IF current \in DOMAIN previous THEN previous[current] ELSE Null,
                     startNodeId, previous)

\* `while (current !== null)`: unshift current, stop at the start node, else go
\* on with `previous.get(current) || null` (undefined and "" become null).
\* A node met a second time is met forever: the loop does not end
RECURSIVE WalkBack(_, _, _, _)
WalkBack(path, current, startNodeId, previous) ==
  IF current = Null THEN [out |-> "ended", path |-> path]
  ELSE IF current \in Range(path) THEN [out |-> "hangs", path |-> path]
  ELSE IF current = startNodeId THEN [out |-> "ended", path |-> <<current>> \o path]
  ELSE WalkBack(<<current>> \o path,
                IF current \in DOMAIN previous THEN previous[current] ELSE Null,
                startNodeId, previous)

NoPath == [out |-> "returned", path |-> Null, distance |-> Null]

reconstructPath(endNodeId, startNodeId, previous, distances) ==
  IF endNodeId \in DOMAIN distances /\ distances[endNodeId] # Infinity
    THEN LET w == WalkBack(<<>>, endNodeId, startNodeId, previous) IN
         IF w.out = "hangs" THEN [out |-> "hangs", path |-> Null, distance |-> Null]
         ELSE IF w.path = <<>> \/ w.path[1] # startNodeId THEN NoPath
         ELSE [out |-> "returned", path |-> w.path, distance |-> distances[endNodeId]]
    ELSE NoPath

InitDijkstra ==
  /\ nodes = AddNodes(<<>>, DijkstraIds, 1)
  /\ edges = <<>>
  /\ ret = NoCall
  /\ liveEdges = {}
  /\ netCount = 0
  /\ rg = Idle
  /\ dj = Idle
  /\ rp = Idle
  /\ sp = Idle
  /\ pg = Idle

\* the caller builds the graph before the run. A self-loop gets the default
\* weight 1: dijkstra meets it only while its node is the visited current node
\* and skips it before reading the weight
BuildEdge(from_id, to_id, weight) ==
  /\ dj.pc = "idle"
  /\ from_id = to_id => weight = 1
  /\ AddEdge(from_id, to_id, weight)

\* validation, initialisation and steps[0]
DijkstraCall(startNodeId) ==
  /\ dj.pc = "idle"
  /\ IF ~Truthy(nodes, startNodeId)
       THEN dj' = [pc |-> "thrown", startNodeId |-> startNodeId]
       ELSE LET keys      == Keys(nodes)
                distances == [nodeId \in Range(keys) |->
                                IF nodeId = startNodeId THEN 0 ELSE Infinity]
                previous  == [nodeId \in Range(keys) |-> Null]
                created   == createDijkstraStep(<<>>, Null, startNodeId, distances,
                                                previous, <<>>, keys)
            IN dj' = [pc |-> "loop", startNodeId |-> startNodeId,
                      distances |-> distances, previous |-> previous,
                      visited |-> <<>>, unvisited |-> keys,
                      steps |-> <<created.step>>, heap |-> created.heap,
                      recorded |-> <<[distances |-> distances, previous |-> previous,
                                      visited |-> <<>>, unvisited |-> keys]>>]
  /\ UNCHANGED <<nodes, edges, ret, liveEdges, netCount, rg, rp, sp, pg>>

\* the loop goes on: a node with a finite distance is still unvisited
Continues ==
  /\ Len(dj.unvisited) > 0
  /\ findNodeWithSmallestDistance(dj.unvisited, dj.distances) # Null
  /\ dj.distances[findNodeWithSmallestDistance(dj.unvisited, dj.distances)] # Infinity

\* one round of `while (unvisited.size > 0)`
DijkstraIterate ==
  /\ dj.pc = "loop"
  /\ Continues
  /\ LET currentNodeId   == findNodeWithSmallestDistance(dj.unvisited, dj.distances)
         currentDistance == dj.distances[currentNodeId]
         unvisited       == SetDelete(dj.unvisited, currentNodeId)
         visited         == SetAdd(dj.visited, currentNodeId)
         st0 == [distances |-> dj.distances, previous |-> dj.previous,
                 visited |-> visited]
         st1 == RelaxOutgoing(st0, nodes, edges, currentNodeId, currentDistance)
         st2 == RelaxIncoming(st1, nodes, edges, currentNodeId, currentDistance)
         nextNodeId == findNodeWithSmallestDistance(unvisited, st2.distances)
         created == createDijkstraStep(dj.heap, currentNodeId, nextNodeId,
                                       st2.distances, st2.previous, visited, unvisited)
     IN dj' = [dj EXCEPT !.distances = st2.distances,
                         !.previous = st2.previous,
                         !.visited = visited,
                         !.unvisited = unvisited,
                         !.steps = Append(@, created.step),
                         !.heap = created.heap,
                         !.recorded = Append(@, [distances |-> st2.distances,
                                                 previous |-> st2.previous,
                                                 visited |-> visited,
                                                 unvisited |-> unvisited])]
  /\ UNCHANGED <<nodes, edges, ret, liveEdges, netCount, rg, rp, sp, pg>>

\* the loop ends or breaks: the result is returned
DijkstraReturn ==
  /\ dj.pc = "loop"
  /\ ~Continues
  /\ dj' = [dj EXCEPT !.pc = "done"]
  /\ UNCHANGED <<nodes, edges, ret, liveEdges, netCount, rg, rp, sp, pg>>

NextDijkstra ==
  \/ \E from_id, to_id \in Range(DijkstraIds), weight \in DijkstraWeights :
       BuildEdge(from_id, to_id, weight)
  \/ \E startNodeId \in StartIds : DijkstraCall(startNodeId)
  \/ DijkstraIterate
  \/ DijkstraReturn

SpecDijkstra == InitDijkstra /\ [][NextDijkstra]_vars

(* --------------------------- reconstructPath --------------------------- *)

\* the maps handed to reconstructPath: any previous map and any distances map
\* over some of the ids
PreviousMaps ==
  UNION {[keys -> Range(DijkstraIds) \cup {Null}] : keys \in SUBSET Range(DijkstraIds)}

DistanceMaps ==
  UNION {[keys -> {1, Infinity}] : keys \in SUBSET Range(DijkstraIds)}

InitPath ==
  /\ nodes = <<>>
  /\ edges = <<>>
  /\ ret = NoCall
  /\ liveEdges = {}
  /\ netCount = 0
  /\ rg = Idle
  /\ dj = Idle
  /\ sp = Idle
  /\ pg = Idle
  /\ \E endNodeId, startNodeId \in Range(DijkstraIds),
        previous \in PreviousMaps, distances \in DistanceMaps :
       rp = [pc |-> "called", endNodeId |-> endNodeId, startNodeId |-> startNodeId,
             previous |-> previous, distances |-> distances]

PathResult == reconstructPath(rp.endNodeId, rp.startNodeId, rp.previous, rp.distances)

\* the call returns { path, distance }
PathReturns ==
  /\ rp.pc = "called"
  /\ PathResult.out = "returned"
  /\ rp' = [pc |-> "returned", endNodeId |-> rp.endNodeId,
            startNodeId |-> rp.startNodeId, previous |-> rp.previous,
            distances |-> rp.distances,
            path |-> PathResult.path, distance |-> PathResult.distance]
  /\ UNCHANGED <<nodes, edges, ret, liveEdges, netCount, rg, dj, sp, pg>>

\* the backward walk goes round a cycle of predecessors: the call never returns
PathLoops ==
  /\ rp.pc = "called"
  /\ PathResult.out = "hangs"
  /\ rp' = [rp EXCEPT !.pc = "looping"]
  /\ UNCHANGED <<nodes, edges, ret, liveEdges, netCount, rg, dj, sp, pg>>

NextPath ==
  \/ PathReturns
  \/ PathLoops

SpecPath == InitPath /\ [][NextPath]_vars

(* ------------------------- computeShortestPath ------------------------- *)

\* grids have 1..MaxSide rows and 1..MaxSide columns
MaxSide == 3

GridCosts == {0, 1}

\* the rectangular grids, and the grid of zero rows; null and undefined fail
\* the same test as the empty array and are the same value here
Grids ==
  {<<>>} \cup UNION {[1..r -> [1..c -> GridCosts]] : r \in 1..MaxSide, c \in 1..MaxSide}

\* array[row][col] with indices from 0
At(array, row, col) == array[row + 1][col + 1]

SetAt(array, row, col, x) == [array EXCEPT ![row + 1][col + 1] = x]

\* Array(rows).fill(0).map(() => Array(cols).fill(x))
Filled(rows, cols, x) == [r \in 1..rows |-> [c \in 1..cols |-> x]]

\* a loop body that takes the cell on the left whenever there is one
CellStep_left_first(t, dpValues, row, col) ==
  IF col > 0
    THEN [distances |-> SetAt(t.distances, row, col,
                              At(t.distances, row, col - 1) + At(dpValues, row, col)),
          previous |-> SetAt(t.previous, row, col, <<row, col - 1>>)]
    ELSE [distances |-> SetAt(t.distances, row, col,
                              At(t.distances, row - 1, col) + At(dpValues, row, col)),
          previous |-> SetAt(t.previous, row, col, <<row - 1, col>>)]

\* the loop body for one cell other than the start: the cell above is tried
\* first, the cell on the left replaces it only when strictly cheaper
CellStep(t, dpValues, row, col) ==
  LET up   == IF row > 0
                THEN At(t.distances, row - 1, col) + At(dpValues, row, col)
                ELSE Infinity
      min1 == IF row > 0 /\ up < Infinity THEN up ELSE Infinity
      prev1 == IF row > 0 /\ up < Infinity THEN <<row - 1, col>> ELSE Null
      left == IF col > 0
                THEN At(t.distances, row, col - 1) + At(dpValues, row, col)
                ELSE Infinity
      useLeft == col > 0 /\ left < min1
  IN [distances |-> SetAt(t.distances, row, col, IF useLeft THEN left ELSE min1),
      previous |-> SetAt(t.previous, row, col,
                         IF useLeft THEN <<row, col - 1>> ELSE prev1)]

\* the two nested loops from cell (row, col) on
RECURSIVE FillFrom(_, _, _, _, _, _)
FillFrom(t, dpValues, row, col, rows, cols) ==
  IF row >= rows THEN t
  ELSE IF col >= cols THEN FillFrom(t, dpValues, row + 1, 0, rows, cols)
  ELSE IF row = 0 /\ col = 0 THEN FillFrom(t, dpValues, row, col + 1, rows, cols)
  ELSE FillFrom(CellStep(t, dpValues, row, col), dpValues, row, col + 1, rows, cols)

\* `while (current)`: unshift, stop at [0, 0], else follow previous
RECURSIVE WalkCells(_, _, _)
WalkCells(path, current, previous) ==
  IF current = Null THEN path
  ELSE IF current = <<0, 0>> THEN <<current>> \o path
  ELSE WalkCells(<<current>> \o path, At(previous, current[1], current[2]), previous)

InitGrid ==
  /\ nodes = <<>>
  /\ edges = <<>>
  /\ ret = NoCall
  /\ liveEdges = {}
  /\ netCount = 0
  /\ rg = Idle
  /\ dj = Idle
  /\ rp = Idle
  /\ pg = Idle
  /\ \E dpValues \in Grids : sp = [pc |-> "called", dpValues |-> dpValues]

\* a call that answers an empty grid with an empty path
ShortestPathCall_returns_empty ==
  /\ sp.pc = "called"
  /\ IF Len(sp.dpValues) = 0
       THEN sp' = [pc |-> "returned", dpValues |-> sp.dpValues,
                   rows |-> 0, cols |-> 0, path |-> <<>>]
       ELSE LET rows == Len(sp.dpValues)
                cols == Len(sp.dpValues[1])
            IN sp' = [pc |-> "tables", dpValues |-> sp.dpValues,
                      rows |-> rows, cols |-> cols,
                      distances |-> SetAt(Filled(rows, cols, Infinity), 0, 0,
                                          At(sp.dpValues, 0, 0)),
                      previous |-> Filled(rows, cols, Null)]
  /\ UNCHANGED <<nodes, edges, ret, liveEdges, netCount, rg, dj, rp, pg>>

\* the test for an empty grid, then rows, cols and the two tables
ShortestPathCall ==
  /\ sp.pc = "called"
  /\ IF Len(sp.dpValues) = 0
       THEN sp' = [pc |-> "thrown", dpValues |-> sp.dpValues]
       ELSE LET rows == Len(sp.dpValues)
                cols == Len(sp.dpValues[1])
            IN sp' = [pc |-> "tables", dpValues |-> sp.dpValues,
                      rows |-> rows, cols |-> cols,
                      distances |-> SetAt(Filled(rows, cols, Infinity), 0, 0,
                                          At(sp.dpValues, 0, 0)),
                      previous |-> Filled(rows, cols, Null)]
  /\ UNCHANGED <<nodes, edges, ret, liveEdges, netCount, rg, dj, rp, pg>>

\* the dynamic-programming loops
FillTables ==
  /\ sp.pc = "tables"
  /\ LET t == FillFrom([distances |-> sp.distances, previous |-> sp.previous],
                       sp.dpValues, 0, 0, sp.rows, sp.cols)
     IN sp' = [sp EXCEPT !.pc = "filled", !.distances = t.distances,
                         !.previous = t.previous]
  /\ UNCHANGED <<nodes, edges, ret, liveEdges, netCount, rg, dj, rp, pg>>

\* the walk back from the end cell, and the return
ReturnPath ==
  /\ sp.pc = "filled"
  /\ sp' = [pc |-> "returned", dpValues |-> sp.dpValues,
            rows |-> sp.rows, cols |-> sp.cols,
            path |-> WalkCells(<<>>, <<sp.rows - 1, sp.cols - 1>>, sp.previous)]
  /\ UNCHANGED <<nodes, edges, ret, liveEdges, netCount, rg, dj, rp, pg>>

NextGrid ==
  \/ ShortestPathCall
  \/ FillTables
  \/ ReturnPath

SpecGrid == InitGrid /\ [][NextGrid]_vars

(* ------------------- the Dijkstra page's replay controls --------------- *)

\* steps.length of the results the page replays is at most MaxSteps
MaxSteps == 8

\* the ids setInterval hands out
TimerIds == {1, 2}

\* what the handlers of the last render see of the state
Committed(p) ==
  [algorithmResult |-> p.algorithmResult,
   currentStepIndex |-> p.currentStepIndex,
   isAutoPlaying |-> p.isAutoPlaying]

\* the updates of a click handler are rendered before the next event
Flush(p) == [p EXCEPT !.seen = Committed(p)]

clearInterval(intervals, ref) == {t \in intervals : <<t.id>> # ref}

\* an updater that advances without looking at the number of steps
AutoPlayTick_unguarded(prevIndex, length) ==
  [index |-> prevIndex + 1, stop |-> FALSE]

\* the updater the interval callback passes to setCurrentStepIndex; `length`
\* is steps.length of the result the callback closed over
AutoPlayTick(prevIndex, length) ==
  LET nextIndex == prevIndex + 1 IN
  IF nextIndex >= length
    THEN [index |-> prevIndex, stop |-> TRUE]
    ELSE [index |-> nextIndex, stop |-> FALSE]

\* the page after its mount effect has called handleResetGraph; graphSteps is
\* steps.length of what dijkstra returns on the graph, 0 when it throws
InitPage ==
  /\ nodes = <<>>
  /\ edges = <<>>
  /\ ret = NoCall
  /\ liveEdges = {}
  /\ netCount = 0
  /\ rg = Idle
  /\ dj = Idle
  /\ rp = Idle
  /\ sp = Idle
  /\ \E steps \in 0..MaxSteps :
       pg = Flush([pc |-> "mounted", graphSteps |-> steps,
                   algorithmResult |-> Null, currentStepIndex |-> 0,
                   isRunning |-> FALSE, isAutoPlaying |-> FALSE,
                   autoPlayIntervalRef |-> Null, intervals |-> {},
                   seen |-> Null])

\* Reset Graph, also run by the effect when the size or the density changes
handleResetGraph(steps) ==
  /\ pg.pc = "mounted"
  /\ LET stopped ==
           IF pg.autoPlayIntervalRef # Null
             THEN [pg EXCEPT !.intervals = clearInterval(@, pg.autoPlayIntervalRef),
                             !.autoPlayIntervalRef = Null,
                             !.isAutoPlaying = FALSE]
             ELSE pg
     IN pg' = Flush([stopped EXCEPT !.isRunning = FALSE,
                                    !.currentStepIndex = 0,
                                    !.algorithmResult = Null,
                                    !.graphSteps = steps])
  /\ UNCHANGED <<nodes, edges, ret, liveEdges, netCount, rg, dj, rp, sp>>

\* Run: a dijkstra call that throws is caught and changes nothing
handleRunDijkstra ==
  /\ pg.pc = "mounted"
  /\ IF pg.graphSteps = 0
       THEN pg' = pg
       ELSE pg' = Flush([pg EXCEPT !.algorithmResult = <<pg.graphSteps>>,
                                   !.currentStepIndex = 0,
                                   !.isRunning = TRUE])
  /\ UNCHANGED <<nodes, edges, ret, liveEdges, netCount, rg, dj, rp, sp>>

\* Auto Play / Pause; setInterval hands out an id that no live timer has
handleToggleAutoPlay ==
  /\ pg.pc = "mounted"
  /\ IF pg.seen.algorithmResult = Null THEN pg' = pg
     ELSE IF pg.seen.isAutoPlaying
       THEN pg' = Flush([pg EXCEPT
                           !.intervals = IF pg.autoPlayIntervalRef # Null
                                           THEN clearInterval(@, pg.autoPlayIntervalRef)
                                           ELSE @,
                           !.autoPlayIntervalRef = Null,
                           !.isAutoPlaying = FALSE])
       ELSE \E id \in TimerIds :
              /\ \A t \in pg.intervals : t.id # id
              /\ pg' = Flush([pg EXCEPT
                                !.isAutoPlaying = TRUE,
                                !.currentStepIndex =
                                   IF pg.seen.currentStepIndex
                                        >= pg.seen.algorithmResult[1] - 1
                                     THEN 0 ELSE @,
                                !.intervals =
                                   @ \cup {[id |-> id,
                                            steps |-> pg.seen.algorithmResult[1]]},
                                !.autoPlayIntervalRef = <<id>>])
  /\ UNCHANGED <<nodes, edges, ret, liveEdges, netCount, rg, dj, rp, sp>>

handleStepForward ==
  /\ pg.pc = "mounted"
  /\ IF pg.seen.algorithmResult = Null THEN pg' = pg
     ELSE IF pg.seen.currentStepIndex >= pg.seen.algorithmResult[1] - 1 THEN pg' = pg
     ELSE pg' = Flush([pg EXCEPT !.currentStepIndex = pg.seen.currentStepIndex + 1])
  /\ UNCHANGED <<nodes, edges, ret, liveEdges, netCount, rg, dj, rp, sp>>

handleStepBackward ==
  /\ pg.pc = "mounted"
  /\ IF pg.seen.algorithmResult = Null THEN pg' = pg
     ELSE IF pg.seen.currentStepIndex <= 0 THEN pg' = pg
     ELSE pg' = Flush([pg EXCEPT !.currentStepIndex = pg.seen.currentStepIndex - 1])
  /\ UNCHANGED <<nodes, edges, ret, liveEdges, netCount, rg, dj, rp, sp>>

\* the callback of a live interval fires: its updater works on the latest
\* index; the handlers keep what the last render showed them
IntervalTick(t) ==
  /\ pg.pc = "mounted"
  /\ t \in pg.intervals
  /\ LET r == AutoPlayTick(pg.currentStepIndex, t.steps) IN
     IF r.stop
       THEN pg' = [pg EXCEPT
                     !.intervals = IF pg.autoPlayIntervalRef # Null
                                     THEN clearInterval(@, pg.autoPlayIntervalRef)
                                     ELSE @,
                     !.autoPlayIntervalRef = Null,
                     !.isAutoPlaying = FALSE,
                     !.currentStepIndex = r.index]
       ELSE pg' = [pg EXCEPT !.currentStepIndex = r.index]
  /\ UNCHANGED <<nodes, edges, ret, liveEdges, netCount, rg, dj, rp, sp>>

\* the render that follows the updates of an interval callback
Render ==
  /\ pg.pc = "mounted"
  /\ pg.seen # Committed(pg)
  /\ pg' = Flush(pg)
  /\ UNCHANGED <<nodes, edges, ret, liveEdges, netCount, rg, dj, rp, sp>>

NextPage ==
  \/ \E steps \in 0..MaxSteps : handleResetGraph(steps)
  \/ handleRunDijkstra
  \/ handleToggleAutoPlay
  \/ handleStepForward
  \/ handleStepBackward
  \/ \E t \in pg.intervals : IntervalTick(t)
  \/ Render

SpecPage == InitPage /\ [][NextPage]_vars

(* ===================== properties of the graph store =================== *)

NodeIds == NodeIdsOf(nodes)

Out(id) == Outgoing(nodes, edges, id)

In(id) == Incoming(nodes, edges, id)

NoDuplicates(s) == Len(s) = Cardinality(Range(s))

\* some live edge joins a and b, in either stored direction
Connects(a, b) ==
  \E e \in liveEdges \cap DOMAIN edges :
     \/ edges[e].from_node = a /\ edges[e].to_node = b
     \/ edges[e].from_node = b /\ edges[e].to_node = a

\* C3: add_edge returns null and changes no list when an endpoint is not a
\* node or an edge already joins the unordered pair; in every other case it
\* returns a new edge from fromId to toId that carries the weight
C3_AddEdgeContract ==
  \A from_id \in ArgIds, to_id \in ArgIds, weight \in Weights :
    LET r == add_edge(nodes, edges, from_id, to_id, weight) IN
    IF from_id \notin NodeIds \/ to_id \notin NodeIds \/ Connects(from_id, to_id)
      THEN r.out = "null" /\ r.nodes = nodes /\ r.edges = edges
      ELSE /\ r.out = "edge"
           /\ r.ref \notin DOMAIN edges
           /\ r.ref \in DOMAIN r.edges
           /\ r.edges[r.ref].from_node = from_id
           /\ r.edges[r.ref].to_node = to_id
           /\ r.edges[r.ref].data = weight

\* C4: no outgoing or incoming list ever holds an edge from a node to itself
C4_NoSelfLoop ==
  \A id \in NodeIds :
    \A e \in Range(Out(id)) \cup Range(In(id)) :
      edges[e].from_node # edges[e].to_node

\* C5: the outgoing list of every node holds exactly the live edges that leave
\* it and its incoming list exactly the live edges that enter it, each once
C5_ListsHoldLiveEdges ==
  /\ liveEdges \subseteq DOMAIN edges
  /\ \A id \in NodeIds :
       /\ NoDuplicates(Out(id))
       /\ NoDuplicates(In(id))
       /\ Range(Out(id)) = {e \in liveEdges \cap DOMAIN edges : edges[e].from_node = id}
       /\ Range(In(id)) = {e \in liveEdges \cap DOMAIN edges : edges[e].to_node = id}

C5_Witness ==
  /\ ret = "head"
  /\ \E id \in NodeIds : Len(Out(id)) >= 2
  /\ \E id \in NodeIds : Len(In(id)) >= 1

Occurrences(s, e) == Cardinality({k \in 1..Len(s) : s[k] = e})

\* C6: get_all_edges has as many entries as add_edge calls succeeded minus
\* remove_edge calls that removed, and holds every live edge exactly once
C6_AllEdgesCount ==
  LET all == get_all_edges(nodes, edges) IN
  /\ Len(all) = netCount
  /\ \A e \in liveEdges : Occurrences(all, e) = 1

Without(s, gone) == SelectSeq(s, LAMBDA e : e \notin gone)

\* C7: removing the edge stored as fromId -> toId takes exactly that edge out
\* of both lists; every other edge stays, in the same order
C7_RemoveExactlyThatEdge ==
  \A from_id \in NodeIds, to_id \in NodeIds :
    Stored(from_id, to_id) # {} =>
      LET r == remove_edge(nodes, edges, from_id, to_id)
          gone == Stored(from_id, to_id)
      IN /\ Cardinality(gone) = 1
         /\ r.out = "void"
         /\ NodeIdsOf(r.nodes) = NodeIds
         /\ \A id \in NodeIds :
              /\ Outgoing(r.nodes, r.edges, id) = Without(Out(id), gone)
              /\ Incoming(r.nodes, r.edges, id) = Without(In(id), gone)
         /\ gone \cap Range(Out(from_id)) # {}
         /\ gone \cap Range(In(to_id)) # {}

C7_Witness ==
  /\ ret = "middle"
  /\ \E id \in NodeIds : Len(Out(id)) = 2

Deref(e, field) == IF e \in DOMAIN edges THEN edges[e][field] ELSE Null

\* C8: both lists of every node are well formed: the head has no prev, next
\* and prev mirror each other, the list ends, and no pointer of a listed edge
\* leads to a removed edge
WellFormed(walk, head, next, prev) ==
  /\ head = Null \/ head \in liveEdges \cap DOMAIN edges
  /\ NoDuplicates(walk)
  /\ Len(walk) <= Cardinality(DOMAIN edges)
  /\ walk # <<>> => Deref(walk[1], prev) = Null /\ Deref(walk[Len(walk)], next) = Null
  /\ \A k \in 1..(Len(walk) - 1) :
       Deref(walk[k], next) = walk[k + 1] /\ Deref(walk[k + 1], prev) = walk[k]
  /\ \A k \in 1..Len(walk) :
       \A f \in {"next_from", "prev_from", "next_to", "prev_to"} :
         Deref(walk[k], f) = Null \/ Deref(walk[k], f) \in liveEdges \cap DOMAIN edges

C8_ListsWellFormed ==
  \A i \in 1..Len(nodes) :
    /\ WellFormed(Out(nodes[i].id), nodes[i].outgoing_edges, "next_from", "prev_from")
    /\ WellFormed(In(nodes[i].id), nodes[i].incoming_edges, "next_to", "prev_to")

C8_Witness ==
  /\ ret = "tail"
  /\ \E id \in NodeIds : Len(In(id)) >= 2

\* C9: remove_edge never throws and changes nothing when fromId or toId is
\* not a node or no edge joins the two
C9_RemoveEdgeNoOp ==
  \A from_id \in ArgIds, to_id \in ArgIds :
    (from_id \notin NodeIds \/ to_id \notin NodeIds \/ ~Connects(from_id, to_id)) =>
      LET r == remove_edge(nodes, edges, from_id, to_id) IN
      r.out = "void" /\ r.nodes = nodes /\ r.edges = edges

\* C10: add_node on an id that is already a node keeps the stored value, both
\* list heads and the number of nodes
C10_AddNodeIdempotent ==
  [][\A node_id \in ArgIds, value \in Values :
       (AddNode(node_id, value) /\ HasOwn(nodes, node_id)) =>
         /\ Len(nodes') = Len(nodes)
         /\ \A i \in 1..Len(nodes) :
              /\ nodes'[i].id = nodes[i].id
              /\ nodes'[i].value = nodes[i].value
              /\ nodes'[i].outgoing_edges = nodes[i].outgoing_edges
              /\ nodes'[i].incoming_edges = nodes[i].incoming_edges
         /\ edges' = edges
    ]_vars

C10_Witness ==
  /\ ret = "existing"
  /\ \E i \in 1..Len(nodes) : nodes[i].outgoing_edges # Null /\ nodes[i].incoming_edges # Null

(* ================== properties of createRandomGraph ==================== *)

\* the Edge objects of the graph
EdgeSet == Reachable(nodes, edges)

\* the nodes joined to `seen` by the edges E walked in either direction
RECURSIVE Closure(_, _)
Closure(seen, E) ==
  LET more == {edges[e].to_node : e \in {f \in E : edges[f].from_node \in seen}}
                \cup {edges[e].from_node : e \in {f \in E : edges[f].to_node \in seen}}
  IN IF more \subseteq seen THEN seen ELSE Closure(seen \cup more, E)

\* C2: for nodeCount >= 1 the returned graph is connected, has at least
\* nodeCount - 1 edges, no self-loop and at most one edge per unordered pair
C2_RandomGraphConnected ==
  (rg.pc = "done" /\ rg.nodeCount >= 1) =>
    LET E == EdgeSet IN
    /\ Len(nodes) = rg.nodeCount
    /\ Closure({nodes[1].id}, E) = NodeIds
    /\ Cardinality(E) >= rg.nodeCount - 1
    /\ \A e \in E : edges[e].from_node # edges[e].to_node
    /\ \A e, f \in E :
         {edges[e].from_node, edges[e].to_node} = {edges[f].from_node, edges[f].to_node}
           => e = f

\* a returned graph of three or more nodes with edges beyond the spanning tree
C2_Witness ==
  /\ rg.pc = "done"
  /\ rg.nodeCount >= 3
  /\ Cardinality(EdgeSet) > rg.nodeCount - 1
  /\ \E id \in NodeIds : Len(Out(id)) >= 2

(* ======================== properties of dijkstra ======================= *)

\* the edges joining a and b, whichever way they are stored
Between(a, b) ==
  {e \in EdgeSet : {edges[e].from_node, edges[e].to_node} = {a, b}}

MinOf(S) == CHOOSE x \in S : \A y \in S : x <= y

\* the walks from a to b that visit no node twice
PathsBetween(a, b) ==
  {p \in UNION {[1..n -> NodeIds] : n \in 1..Cardinality(NodeIds)} :
     /\ p[1] = a
     /\ p[Len(p)] = b
     /\ \A i, j \in 1..Len(p) : i # j => p[i] # p[j]
     /\ \A i \in 1..(Len(p) - 1) : Between(p[i], p[i + 1]) # {}}

RECURSIVE PathWeight(_, _)
PathWeight(p, i) ==
  IF i >= Len(p) THEN 0
  ELSE MinOf({edges[e].data : e \in Between(p[i], p[i + 1])}) + PathWeight(p, i + 1)

NonNegativeWeights == \A e \in EdgeSet : edges[e].data >= 0

Returned == dj.pc = "done" /\ HasOwn(nodes, dj.startNodeId)

\* steps[k-1] as a reader of the result sees it
StepAt(k) ==
  [currentNodeId |-> dj.steps[k].currentNodeId,
   currentShortest |-> dj.steps[k].currentShortest,
   distances |-> Contents(dj, dj.steps[k].distances),
   previous |-> Contents(dj, dj.steps[k].previous),
   visited |-> Contents(dj, dj.steps[k].visited),
   unvisited |-> Contents(dj, dj.steps[k].unvisited)]

\* C1: with non-negative weights and an existing source, the distance returned
\* for every node is the least weight of a path to it over edges walked in
\* either direction, and Infinity exactly when there is no such path
C1_ShortestDistances ==
  (Returned /\ NonNegativeWeights) =>
    \A v \in NodeIds :
      LET paths == PathsBetween(dj.startNodeId, v) IN
      /\ v \in DOMAIN dj.distances
      /\ (paths = {}) <=> (dj.distances[v] = Infinity)
      /\ paths # {} => dj.distances[v] = MinOf({PathWeight(p, 1) : p \in paths})

\* a finished run in which a first estimate was improved over an edge walked
\* in reverse
C1_Witness ==
  /\ Returned
  /\ NonNegativeWeights
  /\ \E v \in NodeIds, k \in 1..Len(dj.steps) :
       /\ StepAt(k).distances[v] < Infinity
       /\ dj.distances[v] < StepAt(k).distances[v]
       /\ \E e \in EdgeSet : /\ edges[e].from_node = v
                             /\ edges[e].to_node = dj.previous[v]

\* C11: a start id that is no node of the graph makes dijkstra throw: no step
\* is recorded and nothing is returned
C11_UnknownStartThrows ==
  (dj.pc # "idle" /\ ~HasOwn(nodes, dj.startNodeId)) =>
    /\ dj.pc = "thrown"
    /\ DOMAIN dj = {"pc", "startNodeId"}

\* C12: steps[0] of a returned run is the state before the loop: no current
\* node, the source announced, the source at 0 and the others at Infinity, no
\* predecessor, nothing visited and every node id unvisited
C12_InitialStep ==
  dj.pc = "done" =>
    LET step == StepAt(1) IN
    /\ step.currentNodeId = Null
    /\ step.currentShortest = dj.startNodeId
    /\ dj.startNodeId \in DOMAIN step.distances
    /\ \A v \in NodeIds :
         /\ v \in DOMAIN step.distances
         /\ step.distances[v] = (IF v = dj.startNodeId THEN 0 ELSE Infinity)
         /\ v \in DOMAIN step.previous
         /\ step.previous[v] = Null
    /\ step.visited = <<>>
    /\ Range(step.unvisited) = NodeIds

\* C13: every recorded step keeps the contents the four maps and sets had when
\* it was recorded, whatever is done to them afterwards
C13_StepsAreSnapshots ==
  dj.pc \in {"loop", "done"} =>
    \A i \in 1..Len(dj.steps) :
      \A f \in StepFields : StepAt(i)[f] = dj.recorded[i][f]

\* a returned run of three or more steps whose first step differs from the
\* final maps and sets in all four fields
C13_Witness ==
  /\ Returned
  /\ Len(dj.steps) >= 3
  /\ StepAt(1).distances # dj.distances
  /\ StepAt(1).previous # dj.previous
  /\ StepAt(1).visited # dj.visited
  /\ StepAt(1).unvisited # dj.unvisited
  /\ StepAt(2).distances # dj.distances

\* the path reconstructPath returns for a target from the result of the run
PathTo(target) == reconstructPath(target, dj.startNodeId, dj.previous, dj.distances)

\* C14: with non-negative weights, for every target a path reaches from the
\* source, reconstructPath on the result returns a path from the source to the
\* target along edges of the graph whose weights add up to distances[target],
\* which is also the distance returned
C14_PathMatchesDistance ==
  (Returned /\ NonNegativeWeights) =>
    \A target \in NodeIds :
      PathsBetween(dj.startNodeId, target) # {} =>
        LET r == PathTo(target) IN
        /\ r.out = "returned"
        /\ r.path # Null
        /\ r.path[1] = dj.startNodeId
        /\ r.path[Len(r.path)] = target
        /\ \A i \in 1..(Len(r.path) - 1) : Between(r.path[i], r.path[i + 1]) # {}
        /\ PathWeight(r.path, 1) = dj.distances[target]
        /\ r.distance = dj.distances[target]

\* a returned path of three nodes whose last edge is walked in reverse
C14_Witness ==
  /\ Returned
  /\ NonNegativeWeights
  /\ \E target \in NodeIds :
       /\ PathTo(target).path # Null
       /\ Len(PathTo(target).path) = 3
       /\ \E e \in EdgeSet : /\ edges[e].from_node = target
                             /\ edges[e].to_node = PathTo(target).path[2]

\* C16: a node no path joins to the source is no error: a call with a source
\* of the graph does not throw, the node is unvisited in every step, and the
\* result has distance Infinity, no predecessor and no path for it
C16_UnreachableNodes ==
  /\ dj.pc = "thrown" => ~HasOwn(nodes, dj.startNodeId)
  /\ dj.pc \in {"loop", "done"} =>
       \A v \in NodeIds :
         PathsBetween(dj.startNodeId, v) = {} =>
           /\ \A k \in 1..Len(dj.steps) : v \in Range(StepAt(k).unvisited)
           /\ dj.pc = "done" =>
                /\ dj.distances[v] = Infinity
                /\ dj.previous[v] = Null
                /\ PathTo(v) = NoPath

\* a returned run of three steps: one node reached from the source, one not
C16_Witness ==
  /\ Returned
  /\ Len(dj.steps) = 3
  /\ \E v \in NodeIds : /\ PathsBetween(dj.startNodeId, v) = {}
                        /\ PathTo(v) = NoPath
  /\ \E u \in NodeIds \ {dj.startNodeId} : dj.previous[u] = dj.startNodeId

\* C17: with non-negative weights the source ends at distance 0 and the nodes
\* are processed in non-decreasing order of their final distance
C17_FinalizedInOrder ==
  (dj.pc = "done" /\ NonNegativeWeights) =>
    /\ dj.startNodeId \in DOMAIN dj.distances
    /\ dj.distances[dj.startNodeId] = 0
    /\ \A j, k \in 2..Len(dj.steps) :
         j < k => dj.distances[StepAt(j).currentNodeId]
                    <= dj.distances[StepAt(k).currentNodeId]

\* in the maps d, p every node other than the source with a finite distance
\* has a predecessor joined to it by an edge that accounts for its distance,
\* and every other node has none
PredecessorsExplain(d, p) ==
  \A v \in NodeIds :
    IF v # dj.startNodeId /\ d[v] < Infinity
      THEN /\ p[v] \in NodeIds
           /\ \E e \in Between(p[v], v) : d[v] = d[p[v]] + edges[e].data
      ELSE p[v] = Null

PredecessorsExplainAll ==
  /\ \A k \in 1..Len(dj.steps) :
       PredecessorsExplain(StepAt(k).distances, StepAt(k).previous)
  /\ PredecessorsExplain(dj.distances, dj.previous)

\* C18 as stated: in every step and in the result of every run, predecessors
\* explain the finite distances, and the source and the nodes at Infinity have
\* no predecessor
C18_PredecessorEdge_AnyWeights ==
  dj.pc \in {"loop", "done"} => PredecessorsExplainAll

\* C18, amended: the same in every run on a graph with non-negative weights
C18_PredecessorEdge ==
  (dj.pc \in {"loop", "done"} /\ NonNegativeWeights) => PredecessorsExplainAll

\* a returned run in which the source was first recorded as the predecessor of
\* a node and a later relaxation replaced it
C18_Witness ==
  /\ Returned
  /\ NonNegativeWeights
  /\ \E v \in NodeIds :
       /\ StepAt(2).previous[v] = dj.startNodeId
       /\ dj.previous[v] \in NodeIds \ {dj.startNodeId}

\* the positions of nodeSet whose member has a finite distance
FinitePositions(nodeSet, distanceMap) ==
  {i \in 1..Len(nodeSet) :
     nodeSet[i] \in DOMAIN distanceMap /\ distanceMap[nodeSet[i]] < Infinity}

\* the earliest member of nodeSet among those of least finite distance, none
\* when no member has a finite distance
FirstMinimum(nodeSet, distanceMap) ==
  LET F == FinitePositions(nodeSet, distanceMap) IN
  IF F = {} THEN Null
  ELSE nodeSet[CHOOSE i \in F :
                 \A j \in F :
                   \/ distanceMap[nodeSet[i]] < distanceMap[nodeSet[j]]
                   \/ distanceMap[nodeSet[i]] = distanceMap[nodeSet[j]] /\ i <= j]

\* C19: the run is determined by the graph and the source: each round
\* processes the node findNodeWithSmallestDistance selects, which is the
\* earliest member of unvisited among those of least finite distance and none
\* when unvisited is empty or holds no finite distance; the step it records
\* announces the next such node, and the graph and the source stay as they are
C19_Deterministic ==
  /\ [](dj.pc \in {"loop", "done"} =>
          /\ findNodeWithSmallestDistance(dj.unvisited, dj.distances)
               = FirstMinimum(dj.unvisited, dj.distances)
          /\ \A k \in 2..Len(dj.steps) :
               StepAt(k).currentShortest
                 = FirstMinimum(StepAt(k).unvisited, StepAt(k).distances))
  /\ [][dj.pc = "loop" =>
          /\ nodes' = nodes /\ edges' = edges
          /\ dj'.startNodeId = dj.startNodeId
          /\ dj'.pc = "loop" =>
               /\ Len(dj'.steps) = Len(dj.steps) + 1
               /\ dj'.steps[Len(dj'.steps)].currentNodeId
                    = FirstMinimum(dj.unvisited, dj.distances)
               /\ \A k \in 1..Len(dj.steps) : dj'.steps[k] = dj.steps[k]
          /\ dj'.pc = "done" =>
               /\ FirstMinimum(dj.unvisited, dj.distances) = Null
               /\ dj'.steps = dj.steps
               /\ dj'.distances = dj.distances
               /\ dj'.previous = dj.previous]_vars

\* a run at a point where two unvisited nodes share the least finite distance
\* and the step just recorded announces the earlier of them
C19_Witness ==
  /\ dj.pc = "loop"
  /\ Len(dj.steps) >= 2
  /\ \E i, j \in FinitePositions(dj.unvisited, dj.distances) :
       /\ i < j
       /\ dj.distances[dj.unvisited[i]] = dj.distances[dj.unvisited[j]]
       /\ \A k \in FinitePositions(dj.unvisited, dj.distances) :
            dj.distances[dj.unvisited[i]] <= dj.distances[dj.unvisited[k]]
       /\ StepAt(Len(dj.steps)).currentShortest = dj.unvisited[i]

(* ===================== properties of reconstructPath =================== *)

\* the node n predecessor links behind `current`, none once a link is none or
\* missing
RECURSIVE Behind(_, _, _)
Behind(previous, current, n) ==
  IF n = 0 \/ current = Null THEN current
  ELSE Behind(previous,
              IF current \in DOMAIN previous THEN previous[current] ELSE Null,
              n - 1)

\* the backward walk from the end node meets the start node
ReachesStart ==
  \E n \in 0..Len(DijkstraIds) : Behind(rp.previous, rp.endNodeId, n) = rp.startNodeId

\* C15: when distances[endNodeId] is finite the call returns, and it returns
\* no path and no distance whenever the backward walk does not meet the start
C15_PathTerminates ==
  (/\ rp.pc \in {"returned", "looping"}
   /\ rp.endNodeId \in DOMAIN rp.distances
   /\ rp.distances[rp.endNodeId] # Infinity)
    => /\ rp.pc = "returned"
       /\ ~ReachesStart => (rp.path = Null /\ rp.distance = Null)

(* =================== properties of computeShortestPath ================= *)

\* the cell a sequence of moves right ("R") and down ("D") leads to
RECURSIVE CellAfter(_, _)
CellAfter(moves, n) ==
  IF n = 0 THEN <<0, 0>>
  ELSE LET c == CellAfter(moves, n - 1) IN
       IF moves[n] = "D" THEN <<c[1] + 1, c[2]>> ELSE <<c[1], c[2] + 1>>

\* every path from [0, 0] to [rows-1, cols-1] by moves right and down
MonotonePaths(rows, cols) ==
  {[i \in 1..(rows + cols - 1) |-> CellAfter(moves, i - 1)] :
     moves \in {m \in [1..(rows + cols - 2) -> {"R", "D"}] :
                  CellAfter(m, rows + cols - 2) = <<rows - 1, cols - 1>>}}

RECURSIVE PathCost(_, _, _)
PathCost(grid, path, i) ==
  IF i > Len(path) THEN 0
  ELSE At(grid, path[i][1], path[i][2]) + PathCost(grid, path, i + 1)

\* C20: for a grid of at least one row and one column the returned path is a
\* path from [0, 0] to [rows-1, cols-1] by moves of one cell right or down,
\* of rows + cols - 1 cells, and no such path costs less
C20_MinimalGridPath ==
  sp.pc = "returned" =>
    /\ sp.path \in MonotonePaths(sp.rows, sp.cols)
    /\ sp.path[1] = <<0, 0>>
    /\ sp.path[Len(sp.path)] = <<sp.rows - 1, sp.cols - 1>>
    /\ Len(sp.path) = sp.rows + sp.cols - 1
    /\ \A p \in MonotonePaths(sp.rows, sp.cols) :
         PathCost(sp.dpValues, sp.path, 1) <= PathCost(sp.dpValues, p, 1)
    /\ (sp.rows = 1 \/ sp.cols = 1) => MonotonePaths(sp.rows, sp.cols) = {sp.path}

\* a returned path that starts with a move right and turns down later, on a
\* grid where another path costs more
C20_Witness ==
  /\ sp.pc = "returned"
  /\ sp.rows >= 2
  /\ sp.cols >= 3
  /\ sp.path[2] = <<0, 1>>
  /\ sp.path[3] = <<1, 1>>
  /\ \E p \in MonotonePaths(sp.rows, sp.cols) :
       PathCost(sp.dpValues, sp.path, 1) < PathCost(sp.dpValues, p, 1)

\* C21: a call with a grid of zero rows (or null, or undefined) throws
\* 'Grid cannot be empty': it builds no table and returns no path, and the
\* call throws for no other grid
C21_EmptyGridThrows ==
  sp.pc # "called" =>
    /\ Len(sp.dpValues) = 0 =>
         /\ sp.pc = "thrown"
         /\ DOMAIN sp = {"pc", "dpValues"}
    /\ sp.pc = "thrown" => Len(sp.dpValues) = 0

\* the call on the empty grid has been made and has thrown
C21_Witness ==
  /\ sp.pc = "thrown"
  /\ sp.dpValues = <<>>

(* ============= the number of edges createRandomGraph returns =========== *)

Max(a, b) == IF a >= b THEN a ELSE b

\* floor(nodeCount * (nodeCount - 1) / 2 * edgeDensity) of the call under way
DensityCap ==
  (((rg.nodeCount * (rg.nodeCount - 1)) \div 2) * rg.density) \div DensitySteps

\* C22: for every nodeCount >= 0 and edgeDensity in [0, 1] the call returns,
\* and the returned graph has exactly max(nodeCount - 1, 0, maxEdges) edges,
\* maxEdges = floor(nodeCount * (nodeCount - 1) / 2 * edgeDensity): the
\* connectivity loop leaves nodeCount - 1 edges (none for nodeCount <= 1), and
\* the last loop adds an edge only while the count is below maxEdges
C22_ExactEdgeCount ==
  /\ <>(rg.pc = "done")
  /\ [](rg.pc = "done" =>
          /\ Cardinality(liveEdges) = Max(Max(rg.nodeCount - 1, 0), DensityCap)
          /\ Len(get_all_edges(nodes, edges)) = Cardinality(liveEdges)
          /\ rg.nodeCount <= 1 => liveEdges = {})
  /\ []((rg.pc = "connect" /\ rg.unconnected = {}) =>
          Cardinality(liveEdges) = Max(rg.nodeCount - 1, 0))
  /\ [][(Augment /\ liveEdges' # liveEdges) =>
          /\ Cardinality(liveEdges) < DensityCap
          /\ Cardinality(liveEdges') = Cardinality(liveEdges) + 1]_vars

\* a returned graph of three nodes whose last loop added an edge to the tree
C22_Witness ==
  /\ rg.pc = "done"
  /\ rg.nodeCount = 3
  /\ rg.maxEdges = 3
  /\ Cardinality(liveEdges) = 3

(* ==================== the steps of a dijkstra run ====================== *)

\* the node a step announces is unvisited in that step, at a finite distance
\* that no unvisited node undercuts
AnnouncesMinimum(step) ==
  step.currentShortest # Null =>
    /\ step.currentShortest \in Range(step.unvisited)
    /\ step.currentShortest \in DOMAIN step.distances
    /\ step.distances[step.currentShortest] < Infinity
    /\ \A u \in Range(step.unvisited) :
         step.distances[step.currentShortest] <= step.distances[u]

\* C23: in every run, steps[k+1].currentNodeId = steps[k].currentShortest for
\* every k with k + 1 < steps.length; a currentShortest that is not none is a
\* member of its step's unvisited set at a finite distance that is least
\* among the unvisited nodes; and the last step's currentShortest is none
C23_CurrentShortestAnnounces ==
  dj.pc \in {"loop", "done"} =>
    /\ \A k \in 1..(Len(dj.steps) - 1) :
         StepAt(k + 1).currentNodeId = StepAt(k).currentShortest
    /\ \A k \in 1..Len(dj.steps) : AnnouncesMinimum(StepAt(k))
    /\ dj.pc = "done" => StepAt(Len(dj.steps)).currentShortest = Null

\* the members of a Set, in insertion order, are distinct
Distinct(set) == \A i, j \in 1..Len(set) : set[i] = set[j] => i = j

\* C24: in every recorded step of every run, visited and unvisited are
\* disjoint and together hold every node id of the graph, and distances and
\* previous each have one entry for every node id and no other entry
C24_StepsPartitionNodes ==
  dj.pc \in {"loop", "done"} =>
    \A k \in 1..Len(dj.steps) :
      LET step == StepAt(k) IN
      /\ Range(step.visited) \cap Range(step.unvisited) = {}
      /\ Range(step.visited) \cup Range(step.unvisited) = NodeIds
      /\ Distinct(step.visited)
      /\ Distinct(step.unvisited)
      /\ DOMAIN step.distances = NodeIds
      /\ DOMAIN step.previous = NodeIds

\* a returned run with a step in which one node is visited and two are not,
\* and a later step in which two are visited
C24_Witness ==
  /\ Returned
  /\ Len(dj.steps) >= 3
  /\ Len(StepAt(2).visited) = 1
  /\ Len(StepAt(2).unvisited) = 2
  /\ Len(StepAt(3).visited) = 2

(* ================= more properties of the graph store ================== *)

\* the members of `old` that `new` still holds come in the same order in
\* both, and the members only `new` holds come after them
KeepsOrder(old, new) ==
  /\ SelectSeq(new, LAMBDA e : e \in Range(old))
       = SelectSeq(old, LAMBDA e : e \in Range(new))
  /\ \A i, j \in 1..Len(new) :
       (new[i] \in Range(old) /\ new[j] \notin Range(old)) => i < j

\* C25: an add_edge(fromId, toId) that returns an edge puts it at the tail of
\* the outgoing list of fromId and at the tail of the incoming list of toId
\* and changes no other list; and no call reorders a list, so each list holds
\* its live edges in the order of the calls that created them
C25_AppendsAtTail ==
  /\ [](\A from_id \in ArgIds, to_id \in ArgIds, weight \in Weights :
          LET r == add_edge(nodes, edges, from_id, to_id, weight) IN
          r.out = "edge" =>
            /\ r.ref \notin liveEdges
            /\ Outgoing(r.nodes, r.edges, from_id) = Append(Out(from_id), r.ref)
            /\ Incoming(r.nodes, r.edges, to_id) = Append(In(to_id), r.ref)
            /\ \A id \in NodeIds :
                 /\ id # from_id => Outgoing(r.nodes, r.edges, id) = Out(id)
                 /\ id # to_id => Incoming(r.nodes, r.edges, id) = In(id))
  /\ [][\A id \in NodeIds :
          /\ KeepsOrder(Out(id), Outgoing(nodes', edges', id))
          /\ KeepsOrder(In(id), Incoming(nodes', edges', id))]_vars

\* two edges from one node and two edges to one node, the earlier first
C25_Witness ==
  /\ \E id \in NodeIds : Len(Out(id)) = 2
  /\ \E id \in NodeIds : Len(In(id)) = 2
  /\ ret = NoCall
  /\ netCount = 3

\* C26: hasEdge answers the same for (a, b) and (b, a) in every state; when
\* the only edge between two nodes a and b is stored as b -> a,
\* remove_edge(a, b) leaves the graph as it is, so that hasEdge(a, b) is still
\* true and add_edge(a, b) still returns null, and remove_edge(b, a) removes
\* the edge
C26_RemoveIsDirected ==
  /\ \A a \in ArgIds, b \in ArgIds :
       hasEdge(nodes, edges, a, b) = hasEdge(nodes, edges, b, a)
  /\ \A a \in NodeIds, b \in NodeIds :
       (a # b /\ Stored(b, a) # {} /\ Stored(a, b) = {}) =>
         LET r    == remove_edge(nodes, edges, a, b)
             back == remove_edge(nodes, edges, b, a)
         IN /\ r.out = "void"
            /\ r.nodes = nodes
            /\ r.edges = edges
            /\ hasEdge(r.nodes, r.edges, a, b) = "true"
            /\ hasEdge(r.nodes, r.edges, b, a) = "true"
            /\ \A weight \in Weights :
                 add_edge(r.nodes, r.edges, a, b, weight).out = "null"
            /\ back.found
            /\ hasEdge(back.nodes, back.edges, a, b) = "false"
            /\ hasEdge(back.nodes, back.edges, b, a) = "false"
            /\ Outgoing(back.nodes, back.edges, b) = Without(Out(b), Stored(b, a))
            /\ Incoming(back.nodes, back.edges, a) = Without(In(a), Stored(b, a))

\* an edge stored as b -> a and none stored as a -> b, between two nodes
\* that have other outgoing edges as well
C26_Witness ==
  \E a \in NodeIds, b \in NodeIds :
    /\ a # b
    /\ Stored(b, a) # {}
    /\ Stored(a, b) = {}
    /\ Len(Out(a)) >= 1
    /\ Len(Out(b)) >= 2

\* C27: the id of an edge between a and b equals the id of an edge between c
\* and d exactly when {a, b} = {c, d}, whatever the node ids are; so no two
\* live edges share an id and get_all_edges drops no live edge
C27_EdgeIdsUnique ==
  /\ \A a \in ArgIds, b \in ArgIds, c \in ArgIds, d \in ArgIds :
       (_getEdgeId(a, b) = _getEdgeId(c, d)) <=> ({a, b} = {c, d})
  /\ \A e \in liveEdges, f \in liveEdges : edges[e].id = edges[f].id => e = f
  /\ \A e \in liveEdges : e \in Range(get_all_edges(nodes, edges))

(* ================= more properties of a dijkstra run =================== *)

\* the nodes joined to the source by edges walked in either direction
ReachableFromSource == Closure({dj.startNodeId}, EdgeSet)

\* C28: a run from a node of the graph comes to its return, because every
\* round that does not return takes one node out of unvisited; every round
\* moves one node, the step's currentNodeId, from unvisited to visited; the
\* run records one step more than there are nodes reachable from the source,
\* and the last step's visited set is the set of those nodes
C28_OneNodePerRound ==
  /\ []((dj.pc \in {"loop", "done"} /\ HasOwn(nodes, dj.startNodeId)) =>
          /\ \A k \in 2..Len(dj.steps) :
               LET current == StepAt(k).currentNodeId IN
               /\ current \in Range(StepAt(k - 1).unvisited)
               /\ current \notin Range(StepAt(k - 1).visited)
               /\ Range(StepAt(k).visited) = Range(StepAt(k - 1).visited) \cup {current}
               /\ Range(StepAt(k).unvisited) = Range(StepAt(k - 1).unvisited) \ {current}
          /\ Len(dj.steps) <= 1 + Cardinality(ReachableFromSource)
          /\ dj.pc = "loop" =>
               (Continues <=> Len(dj.steps) < 1 + Cardinality(ReachableFromSource))
          /\ dj.pc = "done" =>
               /\ Len(dj.steps) = 1 + Cardinality(ReachableFromSource)
               /\ Range(StepAt(Len(dj.steps)).visited) = ReachableFromSource
               /\ Range(dj.visited) = ReachableFromSource)
  /\ [][(dj.pc = "loop" /\ HasOwn(nodes, dj.startNodeId)) =>
          \/ dj'.pc = "done"
          \/ /\ dj'.pc = "loop"
             /\ Len(dj'.unvisited) = Len(dj.unvisited) - 1
             /\ Len(dj'.steps) = Len(dj.steps) + 1]_vars

\* a returned run on a graph with a node out of reach: three steps, two nodes
\* visited, the third left unvisited
C28_Witness ==
  /\ Returned
  /\ Len(dj.steps) = 3
  /\ Cardinality(ReachableFromSource) = 2
  /\ Len(dj.unvisited) = 1
  /\ \E e \in EdgeSet : edges[e].data < 0

\* C29: with non-negative weights, the distance and the predecessor of a node
\* that is visited in a step are the same in that step, in every later step
\* and in the returned maps, and no node's distance grows from one step to
\* the next or from the last step to the result
C29_VisitedIsFinal ==
  (dj.pc \in {"loop", "done"} /\ NonNegativeWeights) =>
    /\ \A k \in 1..Len(dj.steps) :
         \A v \in Range(StepAt(k).visited) :
           /\ \A j \in k..Len(dj.steps) :
                /\ StepAt(j).distances[v] = StepAt(k).distances[v]
                /\ StepAt(j).previous[v] = StepAt(k).previous[v]
           /\ dj.distances[v] = StepAt(k).distances[v]
           /\ dj.previous[v] = StepAt(k).previous[v]
    /\ \A k \in 1..(Len(dj.steps) - 1) :
         \A v \in NodeIds : StepAt(k + 1).distances[v] <= StepAt(k).distances[v]
    /\ \A v \in NodeIds : dj.distances[v] <= StepAt(Len(dj.steps)).distances[v]

\* a returned run of four steps on non-negative weights, one of them 0, in
\* which a node's first estimate was lowered before the node was visited
C29_Witness ==
  /\ Returned
  /\ NonNegativeWeights
  /\ Len(dj.steps) = 4
  /\ \E v \in NodeIds :
       /\ StepAt(2).distances[v] < Infinity
       /\ StepAt(3).distances[v] < StepAt(2).distances[v]
  /\ \E e \in EdgeSet : edges[e].data = 0

(* ================ properties of the page's replay controls ============= *)

\* the cursor of p lies within the steps of the result of p
CursorInSteps(p) ==
  p.algorithmResult # Null =>
    /\ 0 <= p.currentStepIndex
    /\ p.currentStepIndex <= p.algorithmResult[1] - 1

\* C30: whenever a result is present the step cursor lies within its steps,
\* in the state and in what the last render shows, under every interleaving
\* of Run, Step forward, Step backward, Auto Play / Pause, timer ticks and
\* Reset Graph; a tick at the last step stops auto-play and does not
\* advance; and Reset Graph leaves no timer running
C30_CursorWithinSteps ==
  /\ [](pg.pc = "mounted" =>
          /\ CursorInSteps(pg)
          /\ CursorInSteps(pg.seen)
          /\ \A t \in pg.intervals :
               /\ pg.autoPlayIntervalRef = <<t.id>>
               /\ pg.algorithmResult = <<t.steps>>)
  /\ [][\A t \in pg.intervals :
          (IntervalTick(t) /\ pg.currentStepIndex >= pg.algorithmResult[1] - 1) =>
            /\ pg'.currentStepIndex = pg.currentStepIndex
            /\ ~pg'.isAutoPlaying
            /\ pg'.intervals = {}
            /\ pg'.autoPlayIntervalRef = Null]_vars
  /\ [][(\E steps \in 0..MaxSteps : handleResetGraph(steps)) =>
          /\ pg'.intervals = {}
          /\ pg'.autoPlayIntervalRef = Null
          /\ ~pg'.isAutoPlaying
          /\ pg'.algorithmResult = Null
          /\ pg'.currentStepIndex = 0]_vars

\* auto-play has run to the last of three steps, the tick there has stopped
\* it, and the render has not yet shown that it stopped
C30_Witness ==
  /\ pg.pc = "mounted"
  /\ pg.algorithmResult = <<3>>
  /\ pg.currentStepIndex = 2
  /\ pg.intervals = {}
  /\ ~pg.isAutoPlaying
  /\ pg.seen.isAutoPlaying

====
